---- MODULE Spec2Model ----
(***************************************************************************)
(* Sentinel / Claude Focus Guard: the webhook server's activity tracker    *)
(* (src/webhook-server/server.js).  The server keeps one module-level      *)
(* `state` object, updates it in handleHookEvent on every POST /hook, and  *)
(* derives the activity answer in isClaudeActive on every GET /status.     *)
(*                                                                         *)
(* JavaScript values are modelled as tagged records, so that truthiness,   *)
(* `||`, strict equality and property reads behave as in the source.       *)
(***************************************************************************)
EXTENDS Integers, Sequences, FiniteSets, TLC

\* state: the server's state object; now: the clock; req, res: the request
\* the server handled last and its answer; conns: the POST /hook requests
\* whose body is still arriving; ext: the browser extension.
VARIABLES state, now, req, res, conns, ext

vars == <<state, now, req, res, conns, ext>>

(***************************************************************************)
(* Bounds of the model.                                                    *)
(***************************************************************************)
\* The last clock value of an event stream.
MaxClock == 100

\* POST /hook requests are generated while the history holds fewer records.
MaxEvents == 3

(***************************************************************************)
(* JavaScript values.                                                      *)
(***************************************************************************)
Undefined == [type |-> "undefined"]
Null == [type |-> "null"]
Bool(b) == [type |-> "boolean", b |-> b]
Num(n) == [type |-> "number", n |-> n]
Str(s) == [type |-> "string", s |-> s]
Obj(p) == [type |-> "object", props |-> p]

\* ToBoolean: undefined, null, false, 0 and "" are falsy, all else truthy.
Truthy(v) ==
  CASE v.type = "undefined" -> FALSE
    [] v.type = "null" -> FALSE
    [] v.type = "boolean" -> v.b
    [] v.type = "number" -> v.n # 0
    [] v.type = "string" -> v.s # ""
    [] OTHER -> TRUE

\* a || b
Or(a, b) == IF Truthy(a) THEN a ELSE b

\* The own enumerable properties of a value, as the object spread {...v}
\* copies them: an object's properties, a string's characters by index,
\* nothing for the other primitives.
RECURSIVE StringProps(_, _)
StringProps(s, i) ==
  IF i > Len(s) THEN <<>>
  ELSE (ToString(i - 1) :> Str(SubSeq(s, i, i))) @@ StringProps(s, i + 1)

OwnProps(v) ==
  CASE v.type = "object" -> v.props
    [] v.type = "string" -> StringProps(v.s, 1)
    [] OTHER -> <<>>

\* v.k for a value that is neither null nor undefined (those throw).
GetProp(v, k) == IF k \in DOMAIN OwnProps(v) THEN OwnProps(v)[k] ELSE Undefined

(***************************************************************************)
(* JSON.parse, for the JSON texts the model posts: null, true, false,      *)
(* non-negative integers, strings without escapes and objects of those,    *)
(* written without white space.  Any other text is a SyntaxError.          *)
(***************************************************************************)
Ch(s, i) == IF i >= 1 /\ i <= Len(s) THEN SubSeq(s, i, i) ELSE ""

StartsWith(s, i, lit) ==
  /\ i + Len(lit) - 1 <= Len(s)
  /\ SubSeq(s, i, i + Len(lit) - 1) = lit

Digits == {"0", "1", "2", "3", "4", "5", "6", "7", "8", "9"}

DigitVal(c) ==
  CASE c = "0" -> 0 [] c = "1" -> 1 [] c = "2" -> 2 [] c = "3" -> 3
    [] c = "4" -> 4 [] c = "5" -> 5 [] c = "6" -> 6 [] c = "7" -> 7
    [] c = "8" -> 8 [] c = "9" -> 9

SyntaxError == [ok |-> FALSE, value |-> Undefined, next |-> 0]

Parsed(v, next) == [ok |-> TRUE, value |-> v, next |-> next]

\* The digits from position i on, added to the number read so far.
RECURSIVE ParseDigits(_, _, _)
ParseDigits(s, i, acc) ==
  IF Ch(s, i) \in Digits
    THEN ParseDigits(s, i + 1, 10 * acc + DigitVal(Ch(s, i)))
    ELSE Parsed(Num(acc), i)

\* The position of the quote that closes a string whose text starts at i
\* (0 when there is none).
RECURSIVE ClosingQuote(_, _)
ClosingQuote(s, i) ==
  IF i > Len(s) THEN 0
  ELSE IF Ch(s, i) = "\"" THEN i
  ELSE ClosingQuote(s, i + 1)

ParseString(s, i) ==
  LET q == ClosingQuote(s, i + 1)
  IN  IF Ch(s, i) # "\"" \/ q = 0 THEN SyntaxError
      ELSE Parsed(Str(SubSeq(s, i + 1, q - 1)), q + 1)

RECURSIVE ParseValue(_, _)
RECURSIVE ParseMembers(_, _, _)

\* The members of an object from position i on ("key":value, separated by
\* commas, closed by a brace); a repeated key keeps its last value.
ParseMembers(s, i, props) ==
  LET k == ParseString(s, i)
      v == ParseValue(s, k.next + 1)
      more == (k.value.s :> v.value) @@ props
  IN  IF ~k.ok \/ Ch(s, k.next) # ":" THEN SyntaxError
      ELSE IF ~v.ok THEN SyntaxError
      ELSE IF Ch(s, v.next) = "}" THEN Parsed(Obj(more), v.next + 1)
      ELSE IF Ch(s, v.next) = "," THEN ParseMembers(s, v.next + 1, more)
      ELSE SyntaxError

ParseValue(s, i) ==
  IF StartsWith(s, i, "null") THEN Parsed(Null, i + 4)
  ELSE IF StartsWith(s, i, "true") THEN Parsed(Bool(TRUE), i + 4)
  ELSE IF StartsWith(s, i, "false") THEN Parsed(Bool(FALSE), i + 5)
  ELSE IF Ch(s, i) = "0" THEN Parsed(Num(0), i + 1)
  ELSE IF Ch(s, i) \in Digits THEN ParseDigits(s, i, 0)
  ELSE IF Ch(s, i) = "\"" THEN ParseString(s, i)
  ELSE IF StartsWith(s, i, "{}") THEN Parsed(Obj(<<>>), i + 2)
  ELSE IF Ch(s, i) = "{" THEN ParseMembers(s, i + 1, <<>>)
  ELSE SyntaxError

\* JSON.parse(text): the value, or a SyntaxError when the text is not one
\* complete JSON value.
JSONparse(text) ==
  LET r == ParseValue(text, 1)
  IN  IF r.ok /\ r.next = Len(text) + 1
        THEN [ok |-> TRUE, value |-> r.value]
        ELSE [ok |-> FALSE, value |-> Undefined]

(***************************************************************************)
(* Date: the clock is `now`, in milliseconds since the epoch.              *)
(***************************************************************************)
Pad2(n) == IF n < 10 THEN "0" \o ToString(n) ELSE ToString(n)

Pad3(n) ==
  IF n < 10 THEN "00" \o ToString(n)
  ELSE IF n < 100 THEN "0" \o ToString(n)
  ELSE ToString(n)

\* new Date(t).toISOString(), for an instant t of 1 January 1970.
toISOString(t) ==
  "1970-01-01T" \o Pad2(t \div 3600000) \o ":" \o Pad2((t \div 60000) % 60)
    \o ":" \o Pad2((t \div 1000) % 60) \o "." \o Pad3(t % 1000) \o "Z"

(***************************************************************************)
(* The tracker.                                                            *)
(***************************************************************************)
\* Timeout for considering Claude "inactive" (in ms).
INACTIVITY_TIMEOUT == 2 * 60 * 1000

\* The activity history keeps the last 50 events.
HistoryCap == 50

\* let state = { ... } at start-up.  activeTasks is the Map, as a function
\* from its keys; activityHistory is the array, newest first.
InitialState ==
  [isActive |-> FALSE,
   lastActivity |-> Null,
   currentSession |-> Null,
   activeTasks |-> <<>>,
   activityHistory |-> <<>>]

\* Map.prototype.size
Size(map) == Cardinality(DOMAIN map)

\* Map.prototype.set: the entry is added, or replaces the one with that key.
MapSet(map, k, v) == (k :> v) @@ map

\* Map.prototype.delete
MapDelete(map, k) == [x \in DOMAIN map \ {k} |-> map[x]]

\* Mutant: shift() in place of pop(), which drops the record just added.
PushHistory_Shift(history, record) ==
  LET grown == <<record>> \o history
  IN  IF Len(grown) > HistoryCap THEN SubSeq(grown, 2, Len(grown)) ELSE grown

\* activityHistory.unshift(record), then pop() when more than 50 are held.
PushHistory(history, record) ==
  LET grown == <<record>> \o history
  IN  IF Len(grown) > HistoryCap THEN SubSeq(grown, 1, Len(grown) - 1) ELSE grown

\* { ...event, receivedAt: timestamp }
HistoryRecord(event, t) ==
  ("receivedAt" :> Str(toISOString(t))) @@ OwnProps(event)

\* event.event || event.hook_event_name
EventType(event) == Or(GetProp(event, "event"), GetProp(event, "hook_event_name"))

\* Mutant: a session start beginning with an empty task map.
OnSessionStart_ClearsTasks(st, event, t) ==
  [st EXCEPT !.currentSession = Or(GetProp(event, "session_id"), Str("active")),
             !.activeTasks = <<>>,
             !.isActive = TRUE,
             !.lastActivity = Num(t)]

\* Mutant: the session start keeps the previous lastActivity.
OnSessionStart_KeepsClock(st, event, t) ==
  [st EXCEPT !.currentSession = Or(GetProp(event, "session_id"), Str("active")),
             !.isActive = TRUE]

\* case 'session_start': case 'SessionStart':
OnSessionStart(st, event, t) ==
  [st EXCEPT !.currentSession = Or(GetProp(event, "session_id"), Str("active")),
             !.isActive = TRUE,
             !.lastActivity = Num(t)]

\* Mutant: the session end forgets to clear the task map.
OnSessionEnd_KeepsTasks(st, event, t) ==
  [st EXCEPT !.currentSession = Null, !.isActive = FALSE]

\* Mutant: the session end records itself as activity, like the other cases.
OnSessionEnd_Touches(st, event, t) ==
  [st EXCEPT !.currentSession = Null,
             !.isActive = FALSE,
             !.activeTasks = <<>>,
             !.lastActivity = Num(t)]

\* case 'session_end': case 'SessionEnd':
OnSessionEnd(st, event, t) ==
  [st EXCEPT !.currentSession = Null,
             !.isActive = FALSE,
             !.activeTasks = <<>>]

\* Mutant: a task start dropped when the end of its task was seen before.
OnTaskStart_SkipsEnded(st, event, t) ==
  LET id == GetProp(event, "tool_use_id")
      ended == \E i \in 1..Len(st.activityHistory) :
                 /\ GetProp(Obj(st.activityHistory[i]), "event") = Str("task_end")
                 /\ GetProp(Obj(st.activityHistory[i]), "tool_use_id") = id
  IN  [st EXCEPT !.activeTasks =
                   IF Truthy(id) /\ ~ended
                     THEN MapSet(@, id, [startedAt |-> t,
                                         toolName |-> GetProp(event, "tool_name")])
                     ELSE @,
                 !.isActive = TRUE,
                 !.lastActivity = Num(t)]

\* case 'task_start': case 'PreToolUse':
OnTaskStart(st, event, t) ==
  LET id == GetProp(event, "tool_use_id")
  IN  [st EXCEPT !.activeTasks =
                   IF Truthy(id)
                     THEN MapSet(@, id, [startedAt |-> t,
                                         toolName |-> GetProp(event, "tool_name")])
                     ELSE @,
                 !.isActive = TRUE,
                 !.lastActivity = Num(t)]

\* Mutant: the finished task looked up under the tool's name instead of the
\* tool use id.
OnTaskEnd_DeletesByName(st, event, t) ==
  LET id == GetProp(event, "tool_name")
      tasks == IF Truthy(id) THEN MapDelete(st.activeTasks, id) ELSE st.activeTasks
  IN  [st EXCEPT !.activeTasks = tasks,
                 !.lastActivity = Num(t),
                 !.isActive = Size(tasks) > 0 \/ st.currentSession # Null]

\* Mutant: a task end without an id returning before anything is written.
OnTaskEnd_SkipsWithoutId(st, event, t) ==
  LET id == GetProp(event, "tool_use_id")
      tasks == MapDelete(st.activeTasks, id)
  IN  IF ~Truthy(id) THEN st
      ELSE [st EXCEPT !.activeTasks = tasks,
                      !.lastActivity = Num(t),
                      !.isActive = Size(tasks) > 0 \/ st.currentSession # Null]

\* case 'task_end': case 'PostToolUse':
OnTaskEnd(st, event, t) ==
  LET id == GetProp(event, "tool_use_id")
      tasks == IF Truthy(id) THEN MapDelete(st.activeTasks, id) ELSE st.activeTasks
  IN  [st EXCEPT !.activeTasks = tasks,
                 !.lastActivity = Num(t),
                 !.isActive = Size(tasks) > 0 \/ st.currentSession # Null]

\* Mutant: a stop abandoning the tasks that are outstanding.
OnStop_DropsTasks(st, event, t) ==
  [st EXCEPT !.activeTasks = <<>>, !.lastActivity = Num(t)]

\* Mutant: a stop treated as the end of the session.
OnStop_EndsSession(st, event, t) ==
  [st EXCEPT !.currentSession = Null, !.isActive = FALSE, !.lastActivity = Num(t)]

\* case 'stop': case 'Stop': case 'SubagentStop':
OnStop(st, event, t) == [st EXCEPT !.lastActivity = Num(t)]

\* Mutant: a heartbeat marking the tracker active.
OnHeartbeat_MarksActive(st, event, t) ==
  [st EXCEPT !.lastActivity = Num(t), !.isActive = TRUE]

\* case 'heartbeat':
OnHeartbeat(st, event, t) == [st EXCEPT !.lastActivity = Num(t)]

\* default:
OnUnknown(st, event, t) == [st EXCEPT !.lastActivity = Num(t)]

\* Mutant: the PostToolUse spelling left out of the task-end case.
ApplyEvent_NoPostToolUse(st, event, t) ==
  LET eventType == EventType(event)
  IN  CASE eventType \in {Str("session_start"), Str("SessionStart")} ->
             OnSessionStart(st, event, t)
        [] eventType \in {Str("session_end"), Str("SessionEnd")} ->
             OnSessionEnd(st, event, t)
        [] eventType \in {Str("task_start"), Str("PreToolUse")} ->
             OnTaskStart(st, event, t)
        [] eventType \in {Str("task_end")} ->
             OnTaskEnd(st, event, t)
        [] eventType \in {Str("stop"), Str("Stop"), Str("SubagentStop")} ->
             OnStop(st, event, t)
        [] eventType = Str("heartbeat") ->
             OnHeartbeat(st, event, t)
        [] OTHER ->
             OnUnknown(st, event, t)

\* Mutant: the session-start case also taking the upper-case spelling.
ApplyEvent_AcceptsUpperCase(st, event, t) ==
  LET eventType == EventType(event)
  IN  CASE eventType \in {Str("session_start"), Str("SessionStart"),
                          Str("SESSION_START")} ->
             OnSessionStart(st, event, t)
        [] eventType \in {Str("session_end"), Str("SessionEnd")} ->
             OnSessionEnd(st, event, t)
        [] eventType \in {Str("task_start"), Str("PreToolUse")} ->
             OnTaskStart(st, event, t)
        [] eventType \in {Str("task_end"), Str("PostToolUse")} ->
             OnTaskEnd(st, event, t)
        [] eventType \in {Str("stop"), Str("Stop"), Str("SubagentStop")} ->
             OnStop(st, event, t)
        [] eventType = Str("heartbeat") ->
             OnHeartbeat(st, event, t)
        [] OTHER ->
             OnUnknown(st, event, t)

\* The switch of handleHookEvent, applied to the state st at clock value t.
\* The cases compare with ===, so only the exact spellings match.
ApplyEvent(st, event, t) ==
  LET eventType == EventType(event)
  IN  CASE eventType \in {Str("session_start"), Str("SessionStart")} ->
             OnSessionStart(st, event, t)
        [] eventType \in {Str("session_end"), Str("SessionEnd")} ->
             OnSessionEnd(st, event, t)
        [] eventType \in {Str("task_start"), Str("PreToolUse")} ->
             OnTaskStart(st, event, t)
        [] eventType \in {Str("task_end"), Str("PostToolUse")} ->
             OnTaskEnd(st, event, t)
        [] eventType \in {Str("stop"), Str("Stop"), Str("SubagentStop")} ->
             OnStop(st, event, t)
        [] eventType = Str("heartbeat") ->
             OnHeartbeat(st, event, t)
        [] OTHER ->
             OnUnknown(st, event, t)

\* handleHookEvent(event) at clock value t: the state it leaves, and whether
\* it threw.  Reading event.event of null or undefined throws a TypeError
\* in the first statement that touches the event, before any assignment.
handleHookEvent(st, event, t) ==
  IF event.type \in {"null", "undefined"}
    THEN [threw |-> TRUE, state |-> st]
    ELSE [threw |-> FALSE,
          state |-> ApplyEvent(
                      [st EXCEPT !.activityHistory = PushHistory(@, HistoryRecord(event, t))],
                      event, t)]

\* Mutant: the timeout comparison taken as <= instead of <.
isClaudeActive_Inclusive(st, t) ==
  IF ~Truthy(st.currentSession) /\ Size(st.activeTasks) = 0 THEN FALSE
  ELSE IF Size(st.activeTasks) > 0 THEN TRUE
  ELSE IF Truthy(st.lastActivity) /\ t - st.lastActivity.n <= INACTIVITY_TIMEOUT THEN TRUE
  ELSE FALSE

\* Mutant: the timeout checked before the outstanding tasks, which then no
\* longer override it.
isClaudeActive_TimeoutFirst(st, t) ==
  IF ~Truthy(st.currentSession) /\ Size(st.activeTasks) = 0 THEN FALSE
  ELSE IF Truthy(st.lastActivity) /\ t - st.lastActivity.n < INACTIVITY_TIMEOUT THEN TRUE
  ELSE FALSE

\* Mutant: the query trusting a cached flag that says active.
isClaudeActive_ReadsFlag(st, t) ==
  IF st.isActive THEN TRUE
  ELSE IF ~Truthy(st.currentSession) /\ Size(st.activeTasks) = 0 THEN FALSE
  ELSE IF Size(st.activeTasks) > 0 THEN TRUE
  ELSE IF Truthy(st.lastActivity) /\ t - st.lastActivity.n < INACTIVITY_TIMEOUT THEN TRUE
  ELSE FALSE

\* isClaudeActive() on the state st at clock value t.
isClaudeActive(st, t) ==
  IF ~Truthy(st.currentSession) /\ Size(st.activeTasks) = 0 THEN FALSE
  ELSE IF Size(st.activeTasks) > 0 THEN TRUE
  ELSE IF Truthy(st.lastActivity) /\ t - st.lastActivity.n < INACTIVITY_TIMEOUT THEN TRUE
  ELSE FALSE

\* getStatus()
getStatus(st, t) ==
  [isActive |-> isClaudeActive(st, t),
   lastActivity |-> st.lastActivity,
   currentSession |-> st.currentSession,
   activeTaskCount |-> Size(st.activeTasks),
   timeSinceActivity |-> IF Truthy(st.lastActivity) THEN Num(t - st.lastActivity.n) ELSE Null,
   inactivityTimeout |-> INACTIVITY_TIMEOUT]

(***************************************************************************)
(* The HTTP server: one action per request handled.  A request's body is   *)
(* complete when its 'end' callback runs, and the callback runs to its end *)
(* before any other request is looked at.                                  *)
(***************************************************************************)
\* The lifecycle events posted to /hook: both vocabularies, two task ids, and
\* a task start that carries no id.
HookBodies ==
  {"{\"event\":\"session_start\",\"session_id\":\"s1\"}",
   "{\"event\":\"session_end\"}",
   "{\"event\":\"task_start\",\"tool_use_id\":\"t1\"}",
   "{\"hook_event_name\":\"PreToolUse\",\"tool_use_id\":\"t2\",\"tool_name\":\"Bash\"}",
   "{\"event\":\"task_start\"}",
   "{\"event\":\"task_end\",\"tool_use_id\":\"t1\"}",
   "{\"hook_event_name\":\"PostToolUse\",\"tool_use_id\":\"t2\",\"tool_name\":\"Bash\"}",
   "{\"event\":\"stop\"}",
   "null",
   "{\"event\":"}

\* Bodies at the edge of decoding: texts that are not JSON, JSON values that
\* are not objects, objects with no kind, and two ordinary events.
DecodeBodies ==
  {"",
   "{\"event\":",
   "{\"event\":\"stop\"",
   "null",
   "5",
   "0",
   "true",
   "\"stop\"",
   "{}",
   "{\"tool_use_id\":\"t1\"}",
   "{\"event\":\"session_start\"}",
   "{\"event\":\"task_start\",\"tool_use_id\":\"t1\"}"}

\* JSON.parse of each body, computed once.
HookParse == [b \in HookBodies \cup DecodeBodies |-> JSONparse(b)]

\* No request body is arriving.
NoConns == <<>>

\* The extension after installation, with a YouTube tab open: the overlay is
\* not shown (isBlocked = false), storage holds blockingEnabled = true and no
\* bypassUntil, no checkStatus is running in the content script, and the
\* background worker holds lastKnownStatus = { isActive: false }.
\* A call of an async function that is not running: no local is set.
NotRunning == [pc |-> "idle", storage |-> Undefined, response |-> Undefined]

\* The extension when the content script and the service worker have been
\* loaded: no overlay, blockingEnabled set by onInstalled, no bypass.
InitialExt ==
  [isBlocked |-> FALSE,
   storage |-> [blockingEnabled |-> Bool(TRUE), bypassUntil |-> Undefined],
   checks |-> [c \in {"interval", "message"} |-> NotRunning],
   worker |-> NotRunning,
   lastKnownStatus |-> [isActive |-> FALSE]]

NoRequest == [method |-> "", url |-> "", body |-> ""]
NoResponse == [status |-> 0, payload |-> Undefined]

Init ==
  /\ state = InitialState
  /\ now = 1
  /\ req = NoRequest
  /\ res = NoResponse
  /\ conns = NoConns
  /\ ext = InitialExt

\* Mutant: the request counted as activity before its body is parsed.
HookEnd_TouchesFirst(body, parsed) ==
  LET touched == [state EXCEPT !.lastActivity = Num(now)]
      r == handleHookEvent(touched, parsed.value, now)
  IN  /\ req' = [method |-> "POST", url |-> "/hook", body |-> body]
      /\ IF parsed.ok /\ ~r.threw
           THEN /\ state' = r.state
                /\ res' = [status |-> 200, payload |-> [success |-> TRUE]]
           ELSE /\ state' = touched
                /\ res' = [status |-> 400, payload |-> [error |-> "Invalid JSON"]]
      /\ UNCHANGED now

\* POST /hook, from the 'end' callback on: parse, handle, answer 200; a throw
\* of JSON.parse or of handleHookEvent is caught and answered 400.
HookEnd(body, parsed) ==
  LET r == handleHookEvent(state, parsed.value, now)
  IN  /\ req' = [method |-> "POST", url |-> "/hook", body |-> body]
      /\ IF parsed.ok /\ ~r.threw
           THEN /\ state' = r.state
                /\ res' = [status |-> 200, payload |-> [success |-> TRUE]]
           ELSE /\ state' = IF parsed.ok THEN r.state ELSE state
                /\ res' = [status |-> 400, payload |-> [error |-> "Invalid JSON"]]
      /\ UNCHANGED now

PostHook ==
  /\ Len(state.activityHistory) < MaxEvents
  /\ \E body \in HookBodies : HookEnd(body, HookParse[body])
  /\ UNCHANGED <<conns, ext>>

\* POST /hook with a body at the edge of decoding.
PostDecode ==
  /\ Len(state.activityHistory) < MaxEvents
  /\ \E body \in DecodeBodies : HookEnd(body, HookParse[body])
  /\ UNCHANGED <<conns, ext>>

\* Mutant: a status request counted as activity.
GetStatus_Touches ==
  /\ req' = [method |-> "GET", url |-> "/status", body |-> ""]
  /\ res' = [status |-> 200, payload |-> getStatus(state, now)]
  /\ state' = [state EXCEPT !.lastActivity = Num(now)]
  /\ UNCHANGED <<now, conns, ext>>

\* GET /status
GetStatus ==
  /\ req' = [method |-> "GET", url |-> "/status", body |-> ""]
  /\ res' = [status |-> 200, payload |-> getStatus(state, now)]
  /\ UNCHANGED <<state, now, conns, ext>>

\* GET /history
GetHistory ==
  /\ req' = [method |-> "GET", url |-> "/history", body |-> ""]
  /\ res' = [status |-> 200, payload |-> state.activityHistory]
  /\ UNCHANGED <<state, now, conns, ext>>

\* Time passes: Date.now() moves on to the last millisecond inside the
\* inactivity window of the last recorded activity, or to the first one
\* outside it.
Tick ==
  /\ state.lastActivity # Null
  /\ \E t \in {state.lastActivity.n + INACTIVITY_TIMEOUT - 1,
               state.lastActivity.n + INACTIVITY_TIMEOUT} :
       /\ t > now
       /\ now' = t
  /\ UNCHANGED <<state, req, res, conns, ext>>

Next == PostHook \/ GetStatus \/ GetHistory \/ Tick

Spec == Init /\ [][Next]_vars

NextDecode == PostDecode \/ GetStatus \/ Tick

SpecDecode == Init /\ [][NextDecode]_vars

(***************************************************************************)
(* Properties of the activity query.                                       *)
(***************************************************************************)
NoSession == state.currentSession = Null
NoTasks == DOMAIN state.activeTasks = {}
Elapsed == now - state.lastActivity.n

\* The query asked of the current state at the current clock value.
queryActive == isClaudeActive(state, now)

\* C1: in every reachable state and at every clock value, the activity query
\* answers false when there is no session and no task; otherwise true when a
\* task is outstanding; otherwise true exactly when lastActivity is set and
\* less than 120000 ms have passed since it.
C1_QueryRule ==
  queryActive =
    IF NoSession /\ NoTasks THEN FALSE
    ELSE IF ~NoTasks THEN TRUE
    ELSE IF state.lastActivity # Null /\ Elapsed < 120000 THEN TRUE
    ELSE FALSE

\* C1 witness: GET /status has answered inactive for an open session with no
\* task whose last activity is exactly the timeout ago.
C1_Witness ==
  /\ req.url = "/status"
  /\ res.payload.isActive = FALSE
  /\ ~NoSession /\ NoTasks
  /\ Elapsed = 120000

\* C2: whenever the task map is non-empty the activity query is true, however
\* long ago the last activity was and whether or not a session is open.
C2_TaskOverride == ~NoTasks => queryActive

\* C2 witness: a task is outstanding, no session is open and the timeout has
\* run out since the last activity.
C2_Witness ==
  /\ ~NoTasks /\ NoSession
  /\ Elapsed >= INACTIVITY_TIMEOUT
  /\ queryActive

\* The history record at position i (1 is the newest) is an event of one of
\* the given kinds, named in either field.
IsKind(i, kinds) ==
  /\ i <= Len(state.activityHistory)
  /\ LET r == state.activityHistory[i]
     IN  \/ "event" \in DOMAIN r /\ r["event"] \in {Str(k) : k \in kinds}
         \/ /\ "event" \notin DOMAIN r
            /\ "hook_event_name" \in DOMAIN r
            /\ r["hook_event_name"] \in {Str(k) : k \in kinds}

\* C3 as stated: with lastActivity = T, no session and no task, the query is
\* true at every now < T + timeout and false from T + timeout on.
C3_AsStated ==
  (NoSession /\ NoTasks /\ state.lastActivity # Null)
    => (queryActive <=> now < state.lastActivity.n + INACTIVITY_TIMEOUT)

\* C3, amended: with lastActivity = T, a session open and no task, the query
\* is true at every now < T + timeout and false from T + timeout on; with no
\* session and no task it is false at every clock value.
C3_TimeoutWithSession ==
  /\ (~NoSession /\ NoTasks /\ state.lastActivity # Null)
       => (queryActive <=> now < state.lastActivity.n + INACTIVITY_TIMEOUT)
  /\ (NoSession /\ NoTasks) => ~queryActive

\* C3 witness: a session is open, no task is outstanding, the clock stands at
\* T + timeout exactly and the query has turned false.
C3_Witness ==
  /\ ~NoSession /\ NoTasks
  /\ now = state.lastActivity.n + INACTIVITY_TIMEOUT
  /\ ~queryActive

\* C4: after a session-start followed by a stop, with no task outstanding,
\* the stop leaves the tracker active (cached flag and query) and refreshes
\* lastActivity to its own instant; the query stays true while less than
\* the timeout has passed since the stop and is false from then on.
C4_GracePeriod ==
  (IsKind(1, {"stop", "Stop", "SubagentStop"})
     /\ IsKind(2, {"session_start", "SessionStart"}) /\ NoTasks)
    => /\ state.isActive
       /\ ~NoSession
       /\ state.activityHistory[1]["receivedAt"] = Str(toISOString(state.lastActivity.n))
       /\ queryActive <=> Elapsed < INACTIVITY_TIMEOUT

\* C4 witness: session-start, then a stop some time later, and the timeout
\* has run out since the stop: the query is false, the cached flag still set.
C4_Witness ==
  /\ IsKind(1, {"stop"}) /\ IsKind(2, {"session_start"}) /\ NoTasks
  /\ state.activityHistory[1]["receivedAt"] # state.activityHistory[2]["receivedAt"]
  /\ Elapsed = INACTIVITY_TIMEOUT
  /\ ~queryActive /\ state.isActive

(***************************************************************************)
(* Task runs: task-starts for distinct ids, then the matching task-ends in *)
(* any order, on a fresh tracker or after a session-start.  The history,   *)
(* which holds every event of such a run, tells which ids have been        *)
(* started and ended.                                                      *)
(***************************************************************************)
\* The task ids of a run: two strings and a number.
TaskIds == {Str("t1"), Str("t2"), Num(7)}

\* A task id as JSON text.
IdText(id) == IF id.type = "number" THEN ToString(id.n) ELSE "\"" \o id.s \o "\""

\* The events of a run; the id "t2" is reported in the hook vocabulary.
StartBody(id) ==
  IF id = Str("t2")
    THEN "{\"hook_event_name\":\"PreToolUse\",\"tool_use_id\":" \o IdText(id)
           \o ",\"tool_name\":\"Bash\"}"
    ELSE "{\"event\":\"task_start\",\"tool_use_id\":" \o IdText(id) \o "}"

EndBody(id) ==
  IF id = Str("t2")
    THEN "{\"hook_event_name\":\"PostToolUse\",\"tool_use_id\":" \o IdText(id)
           \o ",\"tool_name\":\"Bash\"}"
    ELSE "{\"event\":\"task_end\",\"tool_use_id\":" \o IdText(id) \o "}"

SessionBody == "{\"hook_event_name\":\"SessionStart\",\"session_id\":\"s1\"}"

RunParse ==
  [b \in {StartBody(id) : id \in TaskIds} \cup {EndBody(id) : id \in TaskIds}
           \cup {SessionBody} |-> JSONparse(b)]

\* The ids of the history records of the given kinds.
IdsOf(kinds) ==
  {state.activityHistory[i]["tool_use_id"] :
     i \in {j \in 1..Len(state.activityHistory) : IsKind(j, kinds)}}

StartedIds == IdsOf({"task_start", "PreToolUse"})
EndedIds == IdsOf({"task_end", "PostToolUse"})

\* The run may begin with a session-start.
RunSession ==
  /\ state.activityHistory = <<>>
  /\ HookEnd(SessionBody, RunParse[SessionBody])
  /\ UNCHANGED <<conns, ext>>

\* A task-start for an id not started yet, while no task-end has been sent.
RunStart ==
  \E id \in TaskIds \ StartedIds :
    /\ EndedIds = {}
    /\ HookEnd(StartBody(id), RunParse[StartBody(id)])
    /\ UNCHANGED <<conns, ext>>

\* The task-end of a started id that has not ended yet.
RunEnd ==
  \E id \in StartedIds \ EndedIds :
    /\ HookEnd(EndBody(id), RunParse[EndBody(id)])
    /\ UNCHANGED <<conns, ext>>

NextRun == RunSession \/ RunStart \/ RunEnd \/ Tick

SpecRun == Init /\ [][NextRun]_vars

\* C5: once every started id of a run has received its task-end, in whatever
\* order, the task map is empty; and if no session is open, the status shows
\* no task and inactive from the instant of the last task-end on, without
\* any wait for the timeout.
C5_RunLeavesNoTask ==
  (StartedIds # {} /\ EndedIds = StartedIds)
    => /\ NoTasks
       /\ getStatus(state, now).activeTaskCount = 0
       /\ NoSession => ~getStatus(state, now).isActive

\* C5 witness: three tasks were started and ended, the one started second
\* ending first and the one started first ending last, with no session, and
\* no time has passed since the last task-end.
C5_Witness ==
  /\ Len(state.activityHistory) = 6
  /\ EndedIds = TaskIds /\ StartedIds = TaskIds
  /\ state.activityHistory[3]["tool_use_id"] = state.activityHistory[5]["tool_use_id"]
  /\ state.activityHistory[1]["tool_use_id"] = state.activityHistory[6]["tool_use_id"]
  /\ NoSession /\ NoTasks
  /\ Elapsed = 0
  /\ ~queryActive

(***************************************************************************)
(* Session end.                                                            *)
(***************************************************************************)
\* The step handles a POST /hook request (a request leaves the clock alone,
\* and only this request names /hook).
HookStep == now' = now /\ req'.url = "/hook"

\* The step handles a POST /hook whose event is a session end.
SessionEndStep ==
  /\ HookStep
  /\ req'.body \in {"{\"event\":\"session_end\"}", "{\"hook_event_name\":\"SessionEnd\"}"}

\* C6: a session-end, submitted from any reachable state, leaves no session
\* and no task, and the activity query is false at once, however recent
\* lastActivity is.
C6_SessionEndClears ==
  [][SessionEndStep
       => /\ res'.status = 200
          /\ state'.currentSession = Null
          /\ DOMAIN state'.activeTasks = {}
          /\ ~isClaudeActive(state', now')
          /\ getStatus(state', now').activeTaskCount = 0]_vars

\* C6 witness: a session-end has just been handled in the same millisecond
\* as a task-start with an id that followed a session-start.
C6_Witness ==
  /\ req.body = "{\"event\":\"session_end\"}" /\ res.status = 200
  /\ IsKind(1, {"session_end"}) /\ IsKind(2, {"task_start"}) /\ IsKind(3, {"session_start"})
  /\ "tool_use_id" \in DOMAIN state.activityHistory[2]
  /\ state.lastActivity = Num(now)
  /\ NoSession /\ NoTasks /\ ~queryActive

\* The tracker's fields other than the history.
Tracked(st) == <<st.isActive, st.lastActivity, st.currentSession, st.activeTasks>>

\* C7: a session-end submitted right after a session-end leaves the session
\* null, the task map empty, the cached flag false and lastActivity as the
\* first one left them, and the query false: the same as one session-end.
\* (The history is not part of this: it takes a record for each submit.)
C7_SessionEndIdempotent ==
  [][(SessionEndStep /\ IsKind(1, {"session_end", "SessionEnd"}))
       => /\ Tracked(state') = Tracked(state)
          /\ state'.currentSession = Null
          /\ DOMAIN state'.activeTasks = {}
          /\ ~state'.isActive
          /\ ~isClaudeActive(state', now')
          /\ isClaudeActive(state', now') = isClaudeActive(state, now)]_vars

\* C7 witness: two session-ends in a row have been handled at different
\* instants, after a session-start.
C7_Witness ==
  /\ IsKind(1, {"session_end"}) /\ IsKind(2, {"session_end"}) /\ IsKind(3, {"session_start"})
  /\ state.activityHistory[1]["receivedAt"] # state.activityHistory[2]["receivedAt"]
  /\ req.body = "{\"event\":\"session_end\"}" /\ res.status = 200
  /\ NoSession /\ NoTasks /\ ~state.isActive

(***************************************************************************)
(* Event streams: one POST /hook in every millisecond, the bodies taken in *)
(* turn from Stream, long enough to overflow the history.                  *)
(***************************************************************************)
Stream ==
  <<"{\"event\":\"session_start\",\"session_id\":\"s1\"}",
    "{\"event\":\"task_start\",\"tool_use_id\":\"t1\"}",
    "{\"hook_event_name\":\"PreToolUse\",\"tool_use_id\":\"t2\",\"tool_name\":\"Bash\"}",
    "null",
    "{\"event\":\"stop\"}",
    "{\"event\":\"heartbeat\"}",
    "{\"hook_event_name\":\"PostToolUse\",\"tool_use_id\":\"t2\",\"tool_name\":\"Bash\"}",
    "{\"event\":",
    "{\"hook_event_name\":\"SubagentStop\"}",
    "{\"hook_event_name\":\"Notification\"}",
    "{\"event\":\"task_end\",\"tool_use_id\":\"t1\"}",
    "5",
    "{\"event\":\"session_end\"}",
    "\"stop\"",
    "{}">>

StreamParse == [i \in 1..Len(Stream) |-> JSONparse(Stream[i])]

\* The place in Stream of the body posted at clock value t.
Slot(t) == (t % Len(Stream)) + 1

\* The server starts at any phase of the stream.
InitStream ==
  /\ state = InitialState
  /\ now \in 1..Len(Stream)
  /\ req = NoRequest
  /\ res = NoResponse
  /\ conns = NoConns
  /\ ext = InitialExt

\* The body of this millisecond is posted, once.
StreamPost ==
  /\ req.body # Stream[Slot(now)]
  /\ HookEnd(Stream[Slot(now)], StreamParse[Slot(now)])
  /\ UNCHANGED <<conns, ext>>

\* The next millisecond begins.
StreamTick ==
  /\ req.body = Stream[Slot(now)]
  /\ now < MaxClock
  /\ now' = now + 1
  /\ UNCHANGED <<state, req, res, conns, ext>>

NextStream == StreamPost \/ StreamTick

SpecStream == InitStream /\ [][NextStream]_vars

\* C8: the history never holds more than 50 records; every submit, whatever
\* its kind, puts the record of its event (the event's properties and the
\* receipt time) at the front, before the records held so far, of which the
\* oldest is dropped when 50 are held already.
C8_HistoryBound ==
  /\ [](Len(state.activityHistory) <= 50)
  /\ [][(HookStep /\ res'.status = 200)
          => LET old == state.activityHistory
                 kept == IF Len(old) >= 50 THEN SubSeq(old, 1, 49) ELSE old
                 event == JSONparse(req'.body).value
             IN  /\ state'.activityHistory =
                      <<("receivedAt" :> Str(toISOString(now))) @@ OwnProps(event)>> \o kept
                 /\ Len(state'.activityHistory) = IF Len(old) >= 50 THEN 50 ELSE Len(old) + 1]_vars

\* C8 witness: the history holds exactly 50 records, the newest received in
\* this millisecond, and the oldest one kept was received two rounds of the
\* stream or more after the start, so that at least ten accepted events
\* before it have been dropped (60 submits or more in all).
C8_Witness ==
  /\ Len(state.activityHistory) = 50
  /\ res.status = 200
  /\ state.activityHistory[1]["receivedAt"] = Str(toISOString(now))
  /\ \E t \in (2 * Len(Stream))..now :
       state.activityHistory[50]["receivedAt"] = Str(toISOString(t))

(***************************************************************************)
(* Decoding at POST /hook.                                                 *)
(***************************************************************************)
\* C9: a POST /hook whose body cannot be decoded is answered 400 with
\* {error: "Invalid JSON"} and leaves the whole tracker state (cached flag,
\* lastActivity, session, tasks, history) as it was.
C9_MalformedRejected ==
  [][(HookStep /\ ~HookParse[req'.body].ok)
       => /\ res'.status = 400
          /\ res'.payload = [error |-> "Invalid JSON"]
          /\ state' = state]_vars

\* C9 witness: a body that is not JSON has just been answered 400 while a
\* session was open, a task outstanding and time had passed since the last
\* activity.
C9_Witness ==
  /\ req.url = "/hook"
  /\ req.body \in {"", "{\"event\":", "{\"event\":\"stop\""}
  /\ res.status = 400
  /\ ~NoSession /\ ~NoTasks
  /\ Len(state.activityHistory) = 2
  /\ Elapsed > 0

\* C10 as stated: every POST /hook whose body decodes as JSON, whatever the
\* value, is submitted and answered 200; 400 answers a decode failure only.
C10_DecodedIsAccepted ==
  (req.url = "/hook" /\ HookParse[req.body].ok) => res.status = 200

(***************************************************************************)
(* The two vocabularies.  An event names its kind in the field `event`     *)
(* (the informal names) or in `hook_event_name` (the hook product's).      *)
(***************************************************************************)
\* The body {"<field>":"<name>"<rest>}.
KindBody(field, name, rest) ==
  "{\"" \o field \o "\":\"" \o name \o "\"" \o rest \o "}"

Informal(name, rest) == KindBody("event", name, rest)
Hook(name, rest) == KindBody("hook_event_name", name, rest)

WithSession == ",\"session_id\":\"s1\""
WithTask == ",\"tool_use_id\":\"t1\",\"tool_name\":\"Bash\""

\* For each semantic kind, the bodies that name it, with the same other
\* fields.
AliasGroups ==
  {{Informal("session_start", WithSession), Hook("SessionStart", WithSession)},
   {Informal("session_end", ""), Hook("SessionEnd", "")},
   {Informal("task_start", WithTask), Hook("PreToolUse", WithTask)},
   {Informal("task_end", WithTask), Hook("PostToolUse", WithTask)},
   {Informal("stop", ""), Hook("Stop", ""), Hook("SubagentStop", "")}}

AliasBodies == UNION AliasGroups

AliasParse == [b \in AliasBodies |-> JSONparse(b)]

\* The bodies that name the same kind as b.
Twins(b) == UNION {g \in AliasGroups : b \in g}

\* POST /hook with an event of either vocabulary.
PostAlias ==
  /\ Len(state.activityHistory) < MaxEvents
  /\ \E body \in AliasBodies : HookEnd(body, AliasParse[body])
  /\ UNCHANGED <<conns, ext>>

NextAlias == PostAlias \/ Tick

SpecAlias == Init /\ [][NextAlias]_vars

\* C11: whichever name of a kind an event carries, the transition is the
\* same: the state a POST /hook leaves has the session, task map, cached
\* flag, lastActivity and history length that each other name of the kind
\* would have left from the same state at the same clock value, and the
\* same answer to the activity query.
C11_AliasEquivalence ==
  [][(HookStep /\ req'.body \in AliasBodies)
       => \A twin \in Twins(req'.body) :
            LET other == handleHookEvent(state, AliasParse[twin].value, now).state
            IN  /\ res'.status = 200
                /\ Tracked(state') = Tracked(other)
                /\ Len(state'.activityHistory) = Len(other.activityHistory)
                /\ isClaudeActive(state', now') = isClaudeActive(other, now)]_vars

\* C11 witness: a PostToolUse has just removed the task that a task_start
\* had entered, with no session open.
C11_Witness ==
  /\ req.body = Hook("PostToolUse", WithTask)
  /\ IsKind(1, {"PostToolUse"}) /\ IsKind(2, {"task_start"})
  /\ NoTasks /\ NoSession /\ ~state.isActive

(***************************************************************************)
(* Kind names in another letter case than the case labels spell them.      *)
(***************************************************************************)
\* Each case variant, paired with the body that carries the recognized
\* spelling and the same other fields.
CaseVariants ==
  {<<Informal("SESSION_START", WithSession), Informal("session_start", WithSession)>>,
   <<Hook("sessionstart", WithSession), Hook("SessionStart", WithSession)>>,
   <<Informal("SESSION_END", ""), Informal("session_end", "")>>,
   <<Informal("Task_Start", WithTask), Informal("task_start", WithTask)>>,
   <<Hook("pretooluse", WithTask), Hook("PreToolUse", WithTask)>>,
   <<Informal("TASK_END", WithTask), Informal("task_end", WithTask)>>,
   <<Hook("POSTTOOLUSE", WithTask), Hook("PostToolUse", WithTask)>>}

VariantBodies == {p[1] : p \in CaseVariants}

\* The recognized spelling of a variant body.
Recognized(b) == (CHOOSE p \in CaseVariants : p[1] = b)[2]

\* The recognized bodies that bring the tracker into its different states.
CaseBodies ==
  VariantBodies \cup
    {Informal("session_start", WithSession), Informal("task_start", WithTask),
     Informal("session_end", "")}

CaseParse == [b \in CaseBodies \cup {p[2] : p \in CaseVariants} |-> JSONparse(b)]

\* POST /hook with a recognized or a case-variant kind.
PostCase ==
  /\ Len(state.activityHistory) < MaxEvents
  /\ \E body \in CaseBodies : HookEnd(body, CaseParse[body])
  /\ UNCHANGED <<conns, ext>>

NextCase == PostCase \/ Tick

SpecCase == Init /\ [][NextCase]_vars

\* The step handles a POST /hook whose kind is a case variant.
VariantStep == HookStep /\ req'.body \in VariantBodies

\* C12 as stated: a case variant of a recognized kind name has the effect of
\* the recognized spelling: the same session, task map, cached flag and
\* lastActivity as the recognized spelling would have left.
C12_AsStated ==
  [][VariantStep
       => Tracked(state') =
            Tracked(handleHookEvent(state, CaseParse[Recognized(req'.body)].value,
                                    now).state)]_vars

\* C12: kinds are matched by exact spelling; a case variant of a recognized
\* kind name is treated as an unrecognized kind: the event is accepted with
\* 200 and recorded in the history, lastActivity becomes now, and the
\* session, the task map and the cached flag are left as they were.
C12_VariantIsUnrecognized ==
  [][VariantStep
       => /\ res'.status = 200
          /\ Len(state'.activityHistory) = Len(state.activityHistory) + 1
          /\ state'.lastActivity = Num(now)
          /\ state'.currentSession = state.currentSession
          /\ state'.activeTasks = state.activeTasks
          /\ state'.isActive = state.isActive]_vars

\* C12 witness: an upper-case SESSION_END has been accepted while a session
\* and a task stay open.
C12_Witness ==
  /\ req.body = Informal("SESSION_END", "") /\ res.status = 200
  /\ IsKind(1, {"SESSION_END"})
  /\ ~NoSession /\ ~NoTasks /\ state.isActive
  /\ state.lastActivity = Num(now)

(***************************************************************************)
(* Session starts with, without and with an empty session id.              *)
(***************************************************************************)
SessionStartBodies ==
  {Informal("session_start", WithSession),
   Hook("SessionStart", ",\"session_id\":\"s2\""),
   Informal("session_start", ""),
   Informal("session_start", ",\"session_id\":\"\""),
   Hook("SessionStart", ",\"session_id\":0")}

SessionBodies ==
  SessionStartBodies \cup
    {Informal("task_start", WithTask), Informal("task_end", WithTask),
     Informal("session_end", ""), Informal("stop", "")}

SessionParse == [b \in SessionBodies |-> JSONparse(b)]

\* POST /hook with a session start or an event that changes what a session
\* start finds.
PostSession ==
  /\ Len(state.activityHistory) < MaxEvents
  /\ \E body \in SessionBodies : HookEnd(body, SessionParse[body])
  /\ UNCHANGED <<conns, ext>>

NextSession == PostSession \/ Tick

SpecSession == Init /\ [][NextSession]_vars

\* The step handles a POST /hook whose event is a session start.
SessionStartStep == HookStep /\ req'.body \in SessionStartBodies

\* The session id of the event that the step submits.
SuppliedId == GetProp(SessionParse[req'.body].value, "session_id")

\* What a session start leaves besides the session itself.
SessionStartRest ==
  /\ res'.status = 200
  /\ state'.lastActivity = Num(now)
  /\ state'.isActive
  /\ isClaudeActive(state', now')
  /\ state'.activeTasks = state.activeTasks

\* C13 as stated: after a session start the session is the supplied session
\* id, or "active" when the event supplies none; lastActivity is now, the
\* cached flag and the query are true, and the task map is unchanged.
C13_AsStated ==
  [][SessionStartStep
       => /\ state'.currentSession =
               (IF SuppliedId = Undefined THEN Str("active") ELSE SuppliedId)
          /\ SessionStartRest]_vars

\* C13: after a session start submitted from any reachable state, the
\* session is the supplied session id when that id is truthy, and "active"
\* when the id is missing or falsy (the empty string, 0); lastActivity is
\* now, the cached flag and the query are true, and the task map is
\* unchanged.
C13_SessionStart ==
  [][SessionStartStep
       => /\ state'.currentSession =
               (IF Truthy(SuppliedId) THEN SuppliedId ELSE Str("active"))
          /\ SessionStartRest]_vars

\* C13 witness: a session start without an id has replaced the session s1
\* by "active" while a task is outstanding.
C13_Witness ==
  /\ req.body = Informal("session_start", "") /\ res.status = 200
  /\ IsKind(1, {"session_start"}) /\ IsKind(2, {"task_start"})
  /\ IsKind(3, {"session_start"})
  /\ state.currentSession = Str("active")
  /\ ~NoTasks /\ state.isActive /\ queryActive

(***************************************************************************)
(* POST /simulate: the test endpoint that builds an event from an action.  *)
(***************************************************************************)
SimulateBodies ==
  {"{\"action\":\"start\"}", "{\"action\":\"stop\"}",
   "{\"action\":\"task_start\"}", "{\"action\":\"restart\"}", "null"}

SimulateParse == [b \in SimulateBodies |-> JSONparse(b)]

\* The event that the handler builds for an action at clock value t; the
\* task id is the template literal `task-${Date.now()}`.
SimulateEvent(action, t) ==
  CASE action = Str("start") ->
         Obj(("event" :> Str("session_start")) @@ ("session_id" :> Str("test-session")))
    [] action = Str("stop") ->
         Obj("event" :> Str("session_end"))
    [] action = Str("task_start") ->
         Obj(("event" :> Str("task_start")) @@
             ("tool_use_id" :> Str("task-" \o ToString(t))))

\* POST /simulate, from the 'end' callback on.  Destructuring { action } out
\* of null throws; an action that is none of the three submits nothing and
\* is answered 200 like the others.
SimulateEnd(body, parsed) ==
  LET threw == ~parsed.ok \/ parsed.value.type \in {"null", "undefined"}
      action == GetProp(parsed.value, "action")
      after == IF action \in {Str("start"), Str("stop"), Str("task_start")}
                 THEN handleHookEvent(state, SimulateEvent(action, now), now).state
                 ELSE state
  IN  /\ req' = [method |-> "POST", url |-> "/simulate", body |-> body]
      /\ IF threw
           THEN /\ state' = state
                /\ res' = [status |-> 400, payload |-> [error |-> "Invalid request"]]
           ELSE /\ state' = after
                /\ res' = [status |-> 200,
                           payload |-> [success |-> TRUE, status |-> getStatus(after, now)]]
      /\ UNCHANGED now

PostSimulate ==
  /\ Len(state.activityHistory) < MaxEvents
  /\ \E body \in SimulateBodies : SimulateEnd(body, SimulateParse[body])
  /\ UNCHANGED <<conns, ext>>

NextSimulate == PostSimulate \/ GetStatus \/ Tick

SpecSimulate == Init /\ [][NextSimulate]_vars

\* C14: every POST /simulate with the action task_start adds one task: the
\* number of outstanding tasks after the request is one more than before
\* it, also when no time has passed since the previous such request.
C14_SimulateAddsTask ==
  [][(now' = now /\ req'.url = "/simulate" /\ req'.body = "{\"action\":\"task_start\"}")
       => /\ res'.status = 200
          /\ Size(state'.activeTasks) = Size(state.activeTasks) + 1
          /\ res'.payload.status.activeTaskCount = Size(state.activeTasks) + 1]_vars

(***************************************************************************)
(* The cached flag state.isActive against the activity query.              *)
(***************************************************************************)
\* The kinds whose branch assigns state.isActive.
FlagWriters ==
  {Str(k) : k \in {"session_start", "SessionStart", "session_end", "SessionEnd",
                   "task_start", "PreToolUse", "task_end", "PostToolUse"}}

\* The step handles a POST /hook whose event's branch assigns the flag.
FlagWriteStep ==
  /\ HookStep
  /\ req'.body \in HookBodies
  /\ HookParse[req'.body].ok
  /\ EventType(HookParse[req'.body].value) \in FlagWriters

\* C17: right after every submit that assigns the cached flag (session
\* start, session end, task start with or without a task id, task end), the
\* flag equals the activity query asked of the resulting state at the same
\* clock value.
C17_FlagMatchesQuery ==
  [][FlagWriteStep => state'.isActive = isClaudeActive(state', now')]_vars

\* The tracker state that differs from st in the cached flag only.
FlagFlipped(st) == [st EXCEPT !.isActive = ~@]

\* C18: the activity query and the isActive of the status do not read the
\* cached flag: for every reachable state and clock value, the state that
\* has the same session, tasks and lastActivity and the other value of the
\* flag gets the same answers.
C18_QueryIgnoresFlag ==
  /\ isClaudeActive(FlagFlipped(state), now) = isClaudeActive(state, now)
  /\ getStatus(FlagFlipped(state), now) = getStatus(state, now)

\* C18 witness: GET /status has answered inactive for a state whose cached
\* flag says active, with a session open and the inactivity window over.
C18_Witness ==
  /\ req.url = "/status"
  /\ res.payload.isActive = FALSE
  /\ state.isActive
  /\ ~NoSession /\ NoTasks
  /\ Elapsed >= INACTIVITY_TIMEOUT

(***************************************************************************)
(* Concurrent requests.  Node runs one callback at a time: the 'data'      *)
(* callbacks of the open POST /hook requests and their 'end' callbacks     *)
(* interleave with one another and with the GET handlers, but each         *)
(* callback runs to its end.                                               *)
(***************************************************************************)
\* The sockets that may be open at once.
ConnIds == {1, 2}

\* The bodies that arrive, as the chunks the 'data' callback is given.
ChunkedBodies ==
  {<<"{\"event\":\"session_", "start\",\"session_id\":\"s1\"}">>,
   <<"{\"event\":\"task_start\",\"tool_use", "_id\":\"t1\"}">>,
   <<"{\"event\":\"task_end\"", ",\"tool_use_id\":\"t1\"}">>,
   <<"{\"event\":\"session_end\"}">>}

\* The requests that have been opened and not yet handled.
Pending == Len(state.activityHistory) + Cardinality(DOMAIN conns)

\* A POST /hook arrives: let body = ''.
ConnOpen(c) ==
  /\ c \notin DOMAIN conns
  /\ Pending < MaxEvents
  /\ \E chunks \in ChunkedBodies :
       conns' = (c :> [body |-> "", rest |-> chunks]) @@ conns
  /\ UNCHANGED <<state, now, req, res, ext>>

\* req.on('data', chunk => { body += chunk; })
ConnData(c) ==
  /\ c \in DOMAIN conns
  /\ conns[c].rest # <<>>
  /\ conns' = [conns EXCEPT ![c] = [body |-> @.body \o Head(@.rest),
                                    rest |-> Tail(@.rest)]]
  /\ UNCHANGED <<state, now, req, res, ext>>

\* Mutant: the 'end' callback gives way after the history unshift, before
\* the switch has run.
ConnEnd_YieldsMidway(c) ==
  /\ c \in DOMAIN conns
  /\ conns[c].rest = <<>>
  /\ LET event == JSONparse(conns[c].body).value
     IN  state' = [state EXCEPT !.activityHistory =
                                  PushHistory(@, HistoryRecord(event, now))]
  /\ req' = [method |-> "POST", url |-> "/hook", body |-> conns[c].body]
  /\ res' = [status |-> 200, payload |-> [success |-> TRUE]]
  /\ conns' = [x \in DOMAIN conns \ {c} |-> conns[x]]
  /\ UNCHANGED <<now, ext>>

\* req.on('end', ...): the whole body has arrived.
ConnEnd(c) ==
  /\ c \in DOMAIN conns
  /\ conns[c].rest = <<>>
  /\ HookEnd(conns[c].body, JSONparse(conns[c].body))
  /\ conns' = [x \in DOMAIN conns \ {c} |-> conns[x]]
  /\ UNCHANGED ext

NextConcurrent ==
  \/ \E c \in ConnIds : ConnOpen(c)
  \/ \E c \in ConnIds : ConnData(c)
  \/ \E c \in ConnIds : ConnEnd(c)
  \/ GetStatus
  \/ GetHistory
  \/ Tick

SpecConcurrent == Init /\ [][NextConcurrent]_vars

\* The clock value that toISOString wrote into a history record.
ReceivedAt(record) ==
  LET iso == record["receivedAt"].s
      d(i) == DigitVal(SubSeq(iso, i, i))
  IN  (((d(12) * 10 + d(13)) * 60 + d(15) * 10 + d(16)) * 60 + d(18) * 10 + d(19)) * 1000
        + d(21) * 100 + d(22) * 10 + d(23)

\* The event that a history record was built from.
RecordedEvent(record) == Obj([k \in DOMAIN record \ {"receivedAt"} |-> record[k]])

\* The state that results from submitting, each as a whole and oldest
\* first, the events of the first i records of a history.
RECURSIVE Replay(_, _)
Replay(history, i) ==
  IF i > Len(history) THEN InitialState
  ELSE handleHookEvent(Replay(history, i + 1), RecordedEvent(history[i]),
                       ReceivedAt(history[i])).state

\* Every event in the history has been applied as a whole, and no other.
AppliedWhole == state = Replay(state.activityHistory, 1)

\* The step leaves the tracker alone or applies, as a whole, the event of a
\* request whose body is complete.
WholeStep ==
  \/ state' = state
  \/ \E c \in DOMAIN conns :
       /\ conns[c].rest = <<>>
       /\ JSONparse(conns[c].body).ok
       /\ state' = handleHookEvent(state, JSONparse(conns[c].body).value, now).state

\* The step answers a read from the state as it is.
ReadStep ==
  (<<req', res'>> # <<req, res>> /\ req'.url \in {"/status", "/history"})
    => /\ state' = state
       /\ res'.payload = IF req'.url = "/status" THEN getStatus(state, now)
                         ELSE state.activityHistory

\* C19: with POST /hook bodies arriving in interleaved chunks and reads in
\* between, the state that any read can observe is the one obtained by
\* applying as a whole (history record, task map, cached flag and
\* lastActivity together) exactly the events recorded in the history; every
\* step leaves the state alone or applies a whole event of a completed
\* body; and a read answers from that state without changing it.
C19_AtomicSubmit ==
  /\ []AppliedWhole
  /\ [][WholeStep /\ ReadStep]_vars

\* C19 witness: GET /status has answered between the two chunks of a task
\* end whose task, entered by a task start that came in two chunks, is
\* still outstanding, while a second request is open.
C19_Witness ==
  /\ req.url = "/status"
  /\ res.payload.activeTaskCount = 1
  /\ \E c \in DOMAIN conns :
       conns[c].body = "{\"event\":\"task_end\"" /\ conns[c].rest # <<>>
  /\ Cardinality(DOMAIN conns) = 2
  /\ IsKind(1, {"task_start"})
  /\ ~NoTasks

(***************************************************************************)
(* The browser extension.  The content script's checkStatus is an async    *)
(* function: it gives way at each await, and the calls started by the      *)
(* interval timer and by a CHECK_STATUS message, the bypass button and the *)
(* popup's switch interleave at those points.  Each action is the code     *)
(* between two awaits.                                                     *)
(***************************************************************************)
\* The hook events posted while the extension runs.
MaxExtEvents == 2
\* The latest clock value at which the bypass button is clicked.
MaxBypassClock == 1

\* The bypass lasts 5 minutes.
BypassDuration == 5 * 60 * 1000

\* What starts a checkStatus: the setInterval timer, a CHECK_STATUS message.
CheckSlots == {"interval", "message"}

\* showOverlay() / hideOverlay()
showOverlay(e) == [e EXCEPT !.isBlocked = TRUE]
hideOverlay(e) == [e EXCEPT !.isBlocked = FALSE]

\* Where a call that has returned left: by the blockingEnabled return, by
\* the bypass return, at the end of the try block, at the end of the catch.
Returned == {"disabled", "bypassed", "checked", "caught"}

\* checkStatus() is called: up to the await of chrome.storage.local.get.
CheckStart(c) ==
  /\ ext.checks[c].pc \in {"idle"} \cup Returned
  /\ ext' = [ext EXCEPT !.checks[c] = [NotRunning EXCEPT !.pc = "get"]]
  /\ UNCHANGED <<state, now, req, res, conns>>

\* chrome.storage.local.get reads the two keys.
StorageGet(c) ==
  /\ ext.checks[c].pc = "get"
  /\ ext' = [ext EXCEPT !.checks[c].pc = "got", !.checks[c].storage = ext.storage]
  /\ UNCHANGED <<state, now, req, res, conns>>

\* storage.blockingEnabled === false, or a bypass deadline not yet reached.
Overridden(storage, t) ==
  \/ storage.blockingEnabled = Bool(FALSE)
  \/ Truthy(storage.bypassUntil) /\ t < storage.bypassUntil.n

\* Mutant: the bypass deadline not looked at before the server is asked.
CheckDecide_SkipsBypass(c) ==
  /\ ext.checks[c].pc = "got"
  /\ LET storage == ext.checks[c].storage
     IN  IF storage.blockingEnabled = Bool(FALSE)
           THEN ext' = [hideOverlay(ext) EXCEPT
                          !.checks[c] = [NotRunning EXCEPT !.pc = "disabled"]]
           ELSE ext' = [ext EXCEPT !.checks[c].pc = "fetch"]
  /\ UNCHANGED <<state, now, req, res, conns>>

\* checkStatus resumes with the storage values: the overrides, the removal
\* of an expired bypass, and the fetch of /status.
CheckDecide(c) ==
  /\ ext.checks[c].pc = "got"
  /\ LET storage == ext.checks[c].storage
     IN  IF Overridden(storage, now)
           THEN ext' = [hideOverlay(ext) EXCEPT
                          !.checks[c] =
                             [NotRunning EXCEPT
                                !.pc = IF storage.blockingEnabled = Bool(FALSE)
                                         THEN "disabled" ELSE "bypassed"]]
           ELSE ext' = [ext EXCEPT
                          !.storage.bypassUntil =
                             IF Truthy(storage.bypassUntil) /\ now >= storage.bypassUntil.n
                               THEN Undefined ELSE @,
                          !.checks[c].pc = "fetch"]
  /\ UNCHANGED <<state, now, req, res, conns>>

\* The server handles the GET /status of a check.
CheckServed(c) ==
  /\ ext.checks[c].pc = "fetch"
  /\ ext' = [ext EXCEPT !.checks[c].pc = "served",
                        !.checks[c].response = [ok |-> TRUE, json |-> getStatus(state, now)]]
  /\ UNCHANGED <<state, now, req, res, conns>>

\* checkStatus resumes with the response: hide when active, show when not.
CheckResume(c) ==
  /\ ext.checks[c].pc = "served"
  /\ LET status == ext.checks[c].response.json
     IN  ext' = [(IF status.isActive THEN hideOverlay(ext) ELSE showOverlay(ext))
                   EXCEPT !.checks[c] = [NotRunning EXCEPT !.pc = "checked"]]
  /\ UNCHANGED <<state, now, req, res, conns>>

\* The errors that end in the catch: fetch rejects, or the response is not
\* ok and 'Server error' is thrown.
FetchErrors == {Str("Failed to fetch"), Str("Server error")}

\* Mutant: the catch failing open.
CheckFail_Hides(c) ==
  /\ ext.checks[c].pc = "fetch"
  /\ \E error \in FetchErrors :
       ext' = [hideOverlay(ext) EXCEPT !.checks[c] = [NotRunning EXCEPT !.pc = "caught"]]
  /\ UNCHANGED <<state, now, req, res, conns>>

\* The catch of checkStatus: block by default.
CheckFail(c) ==
  /\ ext.checks[c].pc = "fetch"
  /\ \E error \in FetchErrors :
       ext' = [showOverlay(ext) EXCEPT !.checks[c] = [NotRunning EXCEPT !.pc = "caught"]]
  /\ UNCHANGED <<state, now, req, res, conns>>

\* handleBypass(): the click on the overlay's bypass button.
handleBypass ==
  /\ ext.isBlocked
  /\ now <= MaxBypassClock
  /\ ext' = [hideOverlay(ext) EXCEPT !.storage.bypassUntil = Num(now + BypassDuration)]
  /\ UNCHANGED <<state, now, req, res, conns>>

\* The popup's switch: chrome.storage.local.set({ blockingEnabled }).
ToggleBlocking ==
  /\ ext' = [ext EXCEPT !.storage.blockingEnabled = Bool(~@.b)]
  /\ UNCHANGED <<state, now, req, res, conns>>

\* The service worker's checkClaudeStatus() is called (alarm, GET_STATUS,
\* start-up): up to the await of fetch.
BgStart ==
  /\ ext.worker.pc \in {"idle"} \cup Returned
  /\ ext' = [ext EXCEPT !.worker = [NotRunning EXCEPT !.pc = "fetch"]]
  /\ UNCHANGED <<state, now, req, res, conns>>

\* The server answers the worker's GET /status and checkClaudeStatus
\* resumes with the response: lastKnownStatus = status.  Nothing that the
\* worker reads or writes changes between the answer and the resumption.
BgResume ==
  /\ ext.worker.pc = "fetch"
  /\ ext' = [ext EXCEPT !.lastKnownStatus = getStatus(state, now),
                        !.worker = [NotRunning EXCEPT !.pc = "checked"]]
  /\ UNCHANGED <<state, now, req, res, conns>>

\* The catch of checkClaudeStatus.
BgFail ==
  /\ ext.worker.pc = "fetch"
  /\ \E error \in FetchErrors :
       ext' = [ext EXCEPT !.lastKnownStatus = [isActive |-> FALSE, serverOffline |-> TRUE],
                          !.worker = [NotRunning EXCEPT !.pc = "caught"]]
  /\ UNCHANGED <<state, now, req, res, conns>>

\* The hook events that open and close a session while the extension runs.
ExtBodies == {Informal("session_start", WithSession), Informal("session_end", "")}

PostExt ==
  /\ Len(state.activityHistory) < MaxExtEvents
  /\ \E body \in ExtBodies : HookEnd(body, AliasParse[body])
  /\ UNCHANGED <<conns, ext>>

\* Time passes, to the deadline of the bypass.
BypassTick ==
  /\ Truthy(ext.storage.bypassUntil)
  /\ now < ext.storage.bypassUntil.n
  /\ now' = ext.storage.bypassUntil.n
  /\ UNCHANGED <<state, req, res, conns, ext>>

NextExt ==
  \/ \E c \in CheckSlots : CheckStart(c)
  \/ \E c \in CheckSlots : StorageGet(c)
  \/ \E c \in CheckSlots : CheckDecide(c)
  \/ \E c \in CheckSlots : CheckServed(c)
  \/ \E c \in CheckSlots : CheckResume(c)
  \/ \E c \in CheckSlots : CheckFail(c)
  \/ handleBypass
  \/ ToggleBlocking
  \/ BgStart
  \/ BgResume
  \/ BgFail
  \/ PostExt
  \/ BypassTick

SpecExt == Init /\ [][NextExt]_vars

\* The step resumes the check c that has read blockingEnabled === false or
\* a bypass deadline that now has not reached.
OverrideStep(c) ==
  /\ ext.checks[c].pc = "got"
  /\ ext'.checks[c].pc # "got"
  /\ Overridden(ext.checks[c].storage, now)

\* C15: a checkStatus that has read blockingEnabled === false, or a bypass
\* deadline still in the future, ends with the overlay hidden and returns
\* without asking the server, whatever the tracker's state is.
C15_OverridePrecedence ==
  [][\A c \in CheckSlots :
       OverrideStep(c)
         => /\ ~ext'.isBlocked
            /\ ext'.checks[c].pc \in {"disabled", "bypassed"}
            /\ <<state', req', res'>> = <<state, req, res>>]_vars

\* C15 witness: one check has returned on the bypass and the other on the
\* disabled setting; the overlay is hidden although the server would
\* answer inactive.
C15_Witness ==
  /\ ext.checks["interval"].pc = "bypassed"
  /\ ext.checks["message"].pc = "disabled"
  /\ ~ext.isBlocked
  /\ ~isClaudeActive(state, now)

\* What the worker holds after a failed fetch.
ServerOffline == [isActive |-> FALSE, serverOffline |-> TRUE]

\* C16: a status fetch that fails or is answered non-OK ends the content
\* script's check with the overlay shown, and leaves the service worker
\* with lastKnownStatus = {isActive: false, serverOffline: true}.
C16_FailSafe ==
  /\ [](ext.worker.pc = "caught" => ext.lastKnownStatus = ServerOffline)
  /\ [][\A c \in CheckSlots :
          (ext.checks[c].pc = "fetch" /\ ext'.checks[c].pc = "caught")
            => ext'.isBlocked]_vars

\* C16 witness: a check and the worker have both ended in their catch, with
\* blocking enabled and no bypass, while a session is open on the server;
\* the overlay is shown.
C16_Witness ==
  /\ \E c \in CheckSlots : ext.checks[c].pc = "caught"
  /\ ext.worker.pc = "caught"
  /\ ext.lastKnownStatus = ServerOffline
  /\ ext.storage = [blockingEnabled |-> Bool(TRUE), bypassUntil |-> Undefined]
  /\ ext.isBlocked
  /\ ~NoSession

\* C20: from the click on the bypass button until the bypassUntil deadline,
\* the overlay is hidden, whatever checkStatus calls were under way at the
\* click.
C20_BypassHolds ==
  (Truthy(ext.storage.bypassUntil) /\ now < ext.storage.bypassUntil.n)
    => ~ext.isBlocked

(***************************************************************************)
(* Task events that carry no tool_use_id.                                  *)
(***************************************************************************)
WithToolName == ",\"tool_name\":\"Bash\""

NoIdStarts == {Informal("task_start", ""), Hook("PreToolUse", WithToolName)}
NoIdEnds == {Informal("task_end", ""), Hook("PostToolUse", WithToolName)}

\* The task events without an id, and the events that open a session and
\* enter a task for them to find.
NoIdBodies ==
  NoIdStarts \cup NoIdEnds \cup
    {Informal("session_start", WithSession), Informal("task_start", WithTask),
     Informal("session_end", "")}

NoIdParse == [b \in NoIdBodies |-> JSONparse(b)]

PostNoId ==
  /\ Len(state.activityHistory) < MaxEvents
  /\ \E body \in NoIdBodies : HookEnd(body, NoIdParse[body])
  /\ UNCHANGED <<conns, ext>>

NextNoId == PostNoId \/ Tick

SpecNoId == Init /\ [][NextNoId]_vars

\* C21: a task start or a task end without a task id is answered 200 and
\* leaves the task map as it was; lastActivity becomes now, and the cached
\* flag becomes true for a task start and, for a task end, true exactly
\* when a task is outstanding or a session is open.
C21_TaskEventWithoutId ==
  [][(HookStep /\ req'.body \in NoIdStarts \cup NoIdEnds)
       => /\ res'.status = 200
          /\ state'.activeTasks = state.activeTasks
          /\ state'.currentSession = state.currentSession
          /\ state'.lastActivity = Num(now)
          /\ state'.isActive =
               IF req'.body \in NoIdStarts THEN TRUE
               ELSE ~(DOMAIN state.activeTasks = {}) \/ state.currentSession # Null]_vars

\* C21 witness: a task end without an id has set the flag back to false
\* after a task start without an id had set it, with no session and no
\* task.
C21_Witness ==
  /\ req.body = Informal("task_end", "") /\ res.status = 200
  /\ IsKind(1, {"task_end"}) /\ IsKind(2, {"task_start"})
  /\ Len(state.activityHistory) = 2
  /\ NoTasks /\ NoSession /\ ~state.isActive
  /\ state.lastActivity = Num(now)

(***************************************************************************)
(* Stop, heartbeat and the kinds that the switch does not know.            *)
(***************************************************************************)
\* The events of the stop, heartbeat and default branches; the last one
\* names no kind at all.
ActivityOnlyBodies ==
  {Informal("stop", ""), Hook("Stop", WithSession), Hook("SubagentStop", ""),
   Informal("heartbeat", ""), Hook("Notification", WithTask),
   "{\"tool_use_id\":\"t1\"}"}

FrameBodies ==
  ActivityOnlyBodies \cup
    {Informal("session_start", WithSession), Informal("task_start", WithTask),
     Informal("session_end", "")}

FrameParse == [b \in FrameBodies |-> JSONparse(b)]

PostFrame ==
  /\ Len(state.activityHistory) < MaxEvents
  /\ \E body \in FrameBodies : HookEnd(body, FrameParse[body])
  /\ UNCHANGED <<conns, ext>>

NextFrame == PostFrame \/ Tick

SpecFrame == Init /\ [][NextFrame]_vars

\* C22: a stop, a heartbeat or an event of an unrecognized kind, submitted
\* from any reachable state, leaves the session, the task map and the
\* cached flag as they were; lastActivity becomes now and the history takes
\* the event's record in front.
C22_ActivityOnly ==
  [][(HookStep /\ req'.body \in ActivityOnlyBodies)
       => /\ res'.status = 200
          /\ state'.currentSession = state.currentSession
          /\ state'.activeTasks = state.activeTasks
          /\ state'.isActive = state.isActive
          /\ state'.lastActivity = Num(now)
          /\ state'.activityHistory =
               <<HistoryRecord(FrameParse[req'.body].value, now)>>
                 \o state.activityHistory]_vars

\* C22 witness: a heartbeat has arrived after the session was ended with a
\* task start before it; no session, no task, the flag false as the session
\* end left it, and lastActivity is now.
C22_Witness ==
  /\ req.body = Informal("heartbeat", "") /\ res.status = 200
  /\ IsKind(1, {"heartbeat"}) /\ IsKind(2, {"session_end"}) /\ IsKind(3, {"task_start"})
  /\ NoSession /\ NoTasks /\ ~state.isActive
  /\ state.lastActivity = Num(now)

(***************************************************************************)
(* The task map against the events that were submitted.                    *)
(***************************************************************************)
\* The body of a task event that names its kind in the given field, for
\* the id whose JSON text is idText.
TaskBody(field, name, idText) == KindBody(field, name, ",\"tool_use_id\":" \o idText)

\* Task starts, one id started under both names and one started with an
\* empty id; task ends; and the events that open and close a session.
TaskBodies ==
  {TaskBody("event", "task_start", "\"t1\""),
   Hook("PreToolUse", WithTask),
   TaskBody("event", "task_start", "7"),
   TaskBody("event", "task_start", "\"\""),
   TaskBody("event", "task_end", "\"t1\""),
   TaskBody("hook_event_name", "PostToolUse", "7"),
   TaskBody("event", "task_end", "\"7\""),
   Informal("session_start", WithSession),
   Informal("session_end", "")}

TaskParse == [b \in TaskBodies |-> JSONparse(b)]

PostTask ==
  /\ Len(state.activityHistory) < MaxEvents
  /\ \E body \in TaskBodies : HookEnd(body, TaskParse[body])
  /\ UNCHANGED <<conns, ext>>

NextTask == PostTask \/ GetStatus \/ Tick

SpecTask == Init /\ [][NextTask]_vars

\* The task id that the i-th record of the history carries, if it carries
\* one.
IdAt(i) == GetProp(Obj(state.activityHistory[i]), "tool_use_id")

\* The i-th record, counted from the newest, is a task start carrying an id
\* that no newer record has ended, by a task end with that id or by a
\* session end.
Outstanding(i) ==
  /\ IsKind(i, {"task_start", "PreToolUse"})
  /\ Truthy(IdAt(i))
  /\ \A k \in 1..(i - 1) :
       /\ ~IsKind(k, {"session_end", "SessionEnd"})
       /\ ~(IsKind(k, {"task_end", "PostToolUse"}) /\ IdAt(k) = IdAt(i))

OutstandingIds == {IdAt(i) : i \in {j \in 1..Len(state.activityHistory) : Outstanding(j)}}

OutstandingBodies ==
  {Informal("task_start", WithTask),
   TaskBody("hook_event_name", "PreToolUse", "\"t2\""),
   Informal("task_end", WithTask),
   TaskBody("hook_event_name", "PostToolUse", "\"t2\""),
   Informal("task_end", ""),
   Informal("session_start", WithSession),
   Informal("session_end", ""),
   Informal("stop", ""),
   Informal("heartbeat", ""),
   Hook("Notification", WithTask)}

OutstandingParse == [b \in OutstandingBodies |-> JSONparse(b)]

PostOutstanding ==
  /\ Len(state.activityHistory) < MaxEvents
  /\ \E body \in OutstandingBodies : HookEnd(body, OutstandingParse[body])
  /\ UNCHANGED <<conns, ext>>

NextOutstanding == PostOutstanding \/ GetStatus \/ Tick

SpecOutstanding == Init /\ [][NextOutstanding]_vars

\* The step submits a session end, or a task end carrying the id.
Releases(id) ==
  /\ HookStep
  /\ LET event == OutstandingParse[req'.body].value
     IN  \/ EventType(event) \in {Str("session_end"), Str("SessionEnd")}
         \/ /\ EventType(event) \in {Str("task_end"), Str("PostToolUse")}
            /\ GetProp(event, "tool_use_id") = id

\* Clock values from now on, up to a day after.
LaterTimes == {now, now + INACTIVITY_TIMEOUT, now + 24 * 60 * 60 * 1000}

\* C24: a task in the map stays there through every step that is neither a
\* task end with its id nor a session end (stop, heartbeat, unrecognized
\* kind, session start, other tasks' events, reads, time passing), and
\* while any task is in the map the query is true at every later clock
\* value.
C24_TaskNeverExpires ==
  /\ [](~NoTasks => \A t \in LaterTimes : isClaudeActive(state, t))
  /\ [][\A id \in DOMAIN state.activeTasks :
          ~Releases(id) => id \in DOMAIN state'.activeTasks]_vars

\* C24 witness: with no session, a task started and a stop after it, the
\* inactivity timeout has run out and GET /status still answers active with
\* one task.
C24_Witness ==
  /\ IsKind(1, {"stop"}) /\ IsKind(2, {"task_start"})
  /\ NoSession /\ DOMAIN state.activeTasks = {Str("t1")}
  /\ Elapsed >= INACTIVITY_TIMEOUT
  /\ req.url = "/status"
  /\ res.payload.isActive /\ res.payload.timeSinceActivity = Num(INACTIVITY_TIMEOUT)

(***************************************************************************)
(* Requests sent in one order and completed in another.  Each body carries *)
(* the number of its sending in a field of its own, which the history      *)
(* record keeps.                                                           *)
(***************************************************************************)
MaxSent == 3

\* ,"sent":k
SentField(k) == ",\"sent\":" \o ToString(k)

\* The bodies that the k-th request may carry, in chunks: the first starts
\* the task t1, the second ends it, a later one is a stop, another end of
\* t1 or a session end.
SentBodies(k) ==
  IF k = 1
    THEN {<<"{\"event\":\"task_start\",\"tool_use_id\":\"t1\"", SentField(k) \o "}">>}
  ELSE IF k = 2
    THEN {<<"{\"event\":\"task_end\",\"tool_use_id\":\"t1\"" \o SentField(k) \o "}">>}
  ELSE {<<"{\"event\":\"stop\"" \o SentField(k) \o "}">>,
        <<"{\"event\":\"task_end\",\"tool_", "use_id\":\"t1\"" \o SentField(k) \o "}">>,
        <<"{\"event\":\"session_end\"" \o SentField(k) \o "}">>}

\* The k-th POST /hook arrives, after the k - 1 before it.
SentOpen(k) ==
  /\ k = Pending + 1
  /\ \E chunks \in SentBodies(k) :
       conns' = (k :> [body |-> "", rest |-> chunks]) @@ conns
  /\ UNCHANGED <<state, now, req, res, ext>>

NextReorder ==
  \/ \E k \in 1..MaxSent : SentOpen(k)
  \/ \E k \in 1..MaxSent : ConnData(k)
  \/ \E k \in 1..MaxSent : ConnEnd(k)
  \/ GetStatus
  \/ Tick

SpecReorder == Init /\ [][NextReorder]_vars

\* The sending number of the event in the i-th record of the history.
SentAt(i) == GetProp(Obj(state.activityHistory[i]), "sent")

\* The task start that was sent first has been applied after the task end
\* that was sent second, and neither a task end of t1 nor a session end
\* has been applied since.
OutOfOrder ==
  \E i \in 1..Len(state.activityHistory) :
    /\ SentAt(i) = Num(1)
    /\ \E j \in (i + 1)..Len(state.activityHistory) : SentAt(j) = Num(2)
    /\ \A k \in 1..(i - 1) :
         ~IsKind(k, {"task_end", "PostToolUse", "session_end", "SessionEnd"})

\* C25: an event is applied when its body is complete, whatever the order
\* of sending: the step that ends a request applies that request's event to
\* the state as it is then.  When the task end of t1 has been applied
\* before the task start of t1 that was sent ahead of it, t1 is in the task
\* map and the query is true at every later clock value, until a task end
\* of t1 or a session end is applied.
C25_CompletionOrder ==
  /\ [](OutOfOrder => /\ Str("t1") \in DOMAIN state.activeTasks
                      /\ \A t \in LaterTimes : isClaudeActive(state, t))
  /\ [][\A k \in DOMAIN conns :
          k \notin DOMAIN conns'
            => state' = handleHookEvent(state, JSONparse(conns[k].body).value, now).state]_vars

\* C25 witness: the task start sent first was applied after the task end
\* sent second; nothing was applied since, the inactivity timeout has run
\* out, and GET /status answers active with one task.
C25_Witness ==
  /\ Len(state.activityHistory) = 2
  /\ SentAt(1) = Num(1) /\ IsKind(1, {"task_start"})
  /\ SentAt(2) = Num(2) /\ IsKind(2, {"task_end"})
  /\ OutOfOrder
  /\ Elapsed >= INACTIVITY_TIMEOUT
  /\ req.url = "/status"
  /\ res.payload.isActive /\ res.payload.activeTaskCount = 1

(***************************************************************************)
(* What changes the answer of the activity query.                          *)
(***************************************************************************)
ChangeBodies ==
  {Informal("session_start", WithSession), Informal("session_end", ""),
   Informal("task_start", WithTask), Informal("task_start", ""),
   Informal("task_end", WithTask),
   Informal("stop", ""), Informal("heartbeat", ""), Hook("Notification", "")}

ChangeParse == [b \in ChangeBodies |-> JSONparse(b)]

PostChange ==
  /\ Len(state.activityHistory) < MaxEvents
  /\ \E body \in ChangeBodies : HookEnd(body, ChangeParse[body])
  /\ UNCHANGED <<conns, ext>>

NextChange == PostChange \/ GetStatus \/ GetHistory \/ Tick

SpecChange == Init /\ [][NextChange]_vars

\* The event that the step submits.
Submitted == ChangeParse[req'.body].value

\* The step submits a session start, or a task start that carries an id.
Activates ==
  \/ EventType(Submitted) \in {Str("session_start"), Str("SessionStart")}
  \/ /\ EventType(Submitted) \in {Str("task_start"), Str("PreToolUse")}
     /\ Truthy(GetProp(Submitted, "tool_use_id"))

\* The step submits an event whose branch sets lastActivity and leaves the
\* session open: anything but a session end.
Refreshes == EventType(Submitted) \notin {Str("session_end"), Str("SessionEnd")}

\* C26: the query turns from false to true only in a step that submits an
\* event, never by the clock or a read; with no session and no task, it
\* turns true exactly by a session start or a task start carrying an id;
\* with a session open, no task and the timeout run out, every event that
\* sets lastActivity (stop, heartbeat, unrecognized kind, task end, ...)
\* turns it true; and in a step that submits nothing it turns from true to
\* false only by the clock reaching lastActivity + timeout while the task
\* map is empty.
C26_QueryChanges ==
  [][LET before == isClaudeActive(state, now)
         after == isClaudeActive(state', now')
     IN  /\ (~before /\ after) => (HookStep /\ state' # state)
         /\ (HookStep /\ NoSession /\ NoTasks) => (after <=> Activates)
         /\ (HookStep /\ ~NoSession /\ NoTasks /\ Elapsed >= INACTIVITY_TIMEOUT
               /\ Refreshes)
              => (~before /\ after)
         /\ (before /\ ~after /\ state' = state)
              => /\ now' > now
                 /\ NoTasks
                 /\ now < state.lastActivity.n + INACTIVITY_TIMEOUT
                 /\ now' >= state.lastActivity.n + INACTIVITY_TIMEOUT]_vars

\* C26 witness: a stop has arrived when the session's timeout had run out,
\* and GET /status, which answered inactive before it, answers active.
C26_Witness ==
  /\ Len(state.activityHistory) = 2
  /\ IsKind(1, {"stop"}) /\ IsKind(2, {"session_start"})
  /\ ReceivedAt(state.activityHistory[1])
       >= ReceivedAt(state.activityHistory[2]) + INACTIVITY_TIMEOUT
  /\ ~NoSession /\ NoTasks
  /\ req.url = "/status" /\ res.payload.isActive
  /\ res.payload.timeSinceActivity = Num(0)
====
